---- MODULE Spec2Model ----
(***************************************************************************)
(* Model of the Telegram macros bot (src/main.py): the webhook dispatcher, *)
(* the onboarding dialogue, meal selection and food logging, over the      *)
(* persisted user_state row (step, data) of one user.                      *)
(*                                                                         *)
(* Texts are sequences of one-character strings.  Python floats are        *)
(* represented as integers in thousandths (35.5 is 35500); the inputs the  *)
(* model draws have at most three decimals.                                *)
(***************************************************************************)
EXTENDS Integers, Sequences, FiniteSets, TLC

(***************************************************************************)
(* Text helpers                                                            *)
(***************************************************************************)

\* characters c with c.isspace()
IsSpace(c) == c = " "

\* decimal digits: accepted by int() and float()
DecChars == {"0", "1", "2", "3", "4", "5", "6", "7", "8", "9"}

\* characters with str.isdigit() true: the decimal digits and, among others,
\* the superscript digits, which int() refuses
IsDigitChars == DecChars \cup {"^2"}

DigitVal(c) ==
  CASE c = "0" -> 0 [] c = "1" -> 1 [] c = "2" -> 2 [] c = "3" -> 3
    [] c = "4" -> 4 [] c = "5" -> 5 [] c = "6" -> 6 [] c = "7" -> 7
    [] c = "8" -> 8 [] c = "9" -> 9

\* str.upper() on one character
UpperChar(c) ==
  CASE c = "a" -> "A" [] c = "c" -> "C" [] c = "d" -> "D" [] c = "e" -> "E"
    [] c = "f" -> "F" [] c = "g" -> "G" [] c = "h" -> "H" [] c = "i" -> "I"
    [] c = "l" -> "L" [] c = "m" -> "M" [] c = "n" -> "N" [] c = "o" -> "O"
    [] c = "p" -> "P" [] c = "r" -> "R" [] c = "s" -> "S" [] c = "t" -> "T"
    [] c = "u" -> "U" [] c = "v" -> "V" [] c = "x" -> "X" [] c = "z" -> "Z"
    [] c = "y" -> "Y" [] c = "k" -> "K" [] c = "b" -> "B"
    [] OTHER -> c

Upper(s) == [i \in 1..Len(s) |-> UpperChar(s[i])]

RECURSIVE LStrip(_)
LStrip(s) == IF s # <<>> /\ IsSpace(Head(s)) THEN LStrip(Tail(s)) ELSE s

RECURSIVE RStrip(_)
RStrip(s) ==
  IF s # <<>> /\ IsSpace(s[Len(s)]) THEN RStrip(SubSeq(s, 1, Len(s) - 1)) ELSE s

\* str.strip()
Strip(s) == RStrip(LStrip(s))

\* re.sub(r"\s+", " ", s): every run of whitespace becomes one space
RECURSIVE Collapse(_)
Collapse(s) ==
  IF s = <<>> THEN <<>>
  ELSE IF IsSpace(Head(s))
       THEN <<" ">> \o Collapse(LStrip(s))
       ELSE <<Head(s)>> \o Collapse(Tail(s))

normalize_text(s) == Collapse(Strip(s))

\* str.replace(",", ".")
ReplaceComma(s) == [i \in 1..Len(s) |-> IF s[i] = "," THEN "." ELSE s[i]]

\* str.replace(" ", "")
RECURSIVE RemoveSpaces(_)
RemoveSpaces(s) ==
  IF s = <<>> THEN <<>>
  ELSE IF Head(s) = " " THEN RemoveSpaces(Tail(s))
       ELSE <<Head(s)>> \o RemoveSpaces(Tail(s))

StartsWith(s, p) == Len(s) >= Len(p) /\ SubSeq(s, 1, Len(p)) = p

AllIn(s, chars) == \A i \in 1..Len(s) : s[i] \in chars

\* str.isdigit()
IsDigit(s) == s # <<>> /\ AllIn(s, IsDigitChars)

\* int(s) succeeds on a string of decimal digits (the only strings the
\* code passes to it have isdigit() true)
IntParses(s) == s # <<>> /\ AllIn(s, DecChars)

RECURSIVE IntOf(_)
IntOf(s) ==
  IF s = <<>> THEN 0
  ELSE 10 * IntOf(SubSeq(s, 1, Len(s) - 1)) + DigitVal(s[Len(s)])

\* position of the first "." of s, 0 when there is none
RECURSIVE DotPos(_, _)
DotPos(s, i) ==
  IF i > Len(s) THEN 0 ELSE IF s[i] = "." THEN i ELSE DotPos(s, i + 1)

\* the fraction digits d1 d2 d3... as thousandths
FracMilli(f) ==
  (IF Len(f) >= 1 THEN 100 * DigitVal(f[1]) ELSE 0)
  + (IF Len(f) >= 2 THEN 10 * DigitVal(f[2]) ELSE 0)
  + (IF Len(f) >= 3 THEN DigitVal(f[3]) ELSE 0)

\* float(s) for an unsigned decimal literal: digits, optionally a point and
\* digits, at least one digit in all.  ok = FALSE is the ValueError.
UFloat(s) ==
  LET p == DotPos(s, 1)
      ip == IF p = 0 THEN s ELSE SubSeq(s, 1, p - 1)
      fp == IF p = 0 THEN <<>> ELSE SubSeq(s, p + 1, Len(s))
  IN IF AllIn(ip, DecChars) /\ AllIn(fp, DecChars) /\ Len(ip) + Len(fp) > 0
     THEN [ok |-> TRUE, val |-> 1000 * IntOf(ip) + FracMilli(fp)]
     ELSE [ok |-> FALSE, val |-> 0]

\* float(s): optional sign, then the unsigned literal
ParseFloat(s) ==
  IF s # <<>> /\ Head(s) = "-"
  THEN LET u == UFloat(Tail(s)) IN [ok |-> u.ok, val |-> 0 - u.val]
  ELSE IF s # <<>> /\ Head(s) = "+" THEN UFloat(Tail(s))
  ELSE UFloat(s)

(***************************************************************************)
(* Vocabulary                                                              *)
(***************************************************************************)

T_start == <<"/", "s", "t", "a", "r", "t">>
T_AYUDA == <<"A", "Y", "U", "D", "A">>
T_RESUMEN == <<"R", "E", "S", "U", "M", "E", "N">>
T_H == <<"H">>
T_M == <<"M">>
T_DEFICIT == <<"D", "E", "F", "I", "C", "I", "T">>
T_VOLUMEN == <<"V", "O", "L", "U", "M", "E", "N">>
T_DESAYUNO == <<"D", "E", "S", "A", "Y", "U", "N", "O">>
T_ALMUERZO == <<"A", "L", "M", "U", "E", "R", "Z", "O">>
T_CENA == <<"C", "E", "N", "A">>
T_SNACK == <<"S", "N", "A", "C", "K">>
K_1_2 == <<"1", ".", "2">>
K_1_375 == <<"1", ".", "3", "7", "5">>
K_1_55 == <<"1", ".", "5", "5">>
K_1_725 == <<"1", ".", "7", "2", "5">>
K_1_9 == <<"1", ".", "9">>

MEAL_TYPES == {T_DESAYUNO, T_ALMUERZO, T_CENA, T_SNACK}

\* ACTIVITY_MAP: key -> factor (in thousandths)
ACTIVITY_KEYS == {K_1_2, K_1_375, K_1_55, K_1_725, K_1_9}

ActivityFactor(key) ==
  CASE key = K_1_2 -> 1200 [] key = K_1_375 -> 1375 [] key = K_1_55 -> 1550
    [] key = K_1_725 -> 1725 [] key = K_1_9 -> 1900

GOALS == {T_DEFICIT, T_VOLUMEN}

\* the texts the users of the model type (msg["text"], before normalisation)
I_start == <<"/", "s", "t", "a", "r", "t">>
I_ayuda == <<"a", "y", "u", "d", "a">>
I_resumen == <<"R", "E", "S", "U", "M", "E", "N">>
I_code == <<"M", "V", "P", "-", "1">>
I_h == <<" ", "h", " ">>
I_M == <<"M">>
I_9 == <<"9">>
I_10 == <<"1", "0">>
I_90 == <<"9", "0">>
I_91 == <<"9", "1">>
I_120 == <<"1", "2", "0">>
I_230_5 == <<"2", "3", "0", ",", "5">>
I_30 == <<"3", "0", ",", "0">>
I_34_9 == <<"3", "4", ".", "9">>
I_35 == <<"3", "5", ".", "0">>
I_250 == <<"2", "5", "0">>
I_251 == <<"2", "5", "1">>
I_act == <<"1", ".", "5", "5">>
I_act2 == <<"1", ".", " ", "9">>
I_goal == <<"d", "e", "f", "i", "c", "i", "t">>
I_goal2 == <<"V", "O", "L", "U", "M", "E", "N">>
I_mant == <<"M", "A", "N", "T", "E", "N", "E", "R">>
I_cena == <<"c", "e", "n", "a">>
I_snack == <<"S", "n", "a", "c", "k">>
I_food == <<"p", "o", "l", "l", "o", " ", " ", "c", "o", "c", "i", "d", "o", " ", "1", "8", "0", "g">>
I_food0 == <<"a", "r", "r", "o", "z", " ", "0">>
I_solo == <<"s", "o", "l", "o", "t", "e", "x", "t", "o">>
I_sup2 == <<"^2">>

Inputs ==
  {I_start, I_ayuda, I_resumen, I_code, I_h, I_M,
   I_9, I_10, I_90, I_91, I_120, I_230_5,
   I_30, I_34_9, I_35, I_250, I_251,
   I_act, I_act2, I_goal, I_goal2, I_mant,
   I_cena, I_snack, I_food, I_food0, I_solo, I_sup2}

(***************************************************************************)
(* parse_food_grams                                                        *)
(***************************************************************************)

\* \d+(?:[.,]\d+)? : digits, optionally one separator and digits
IsGrams(n) ==
  LET m == ReplaceComma(n)
      p == DotPos(m, 1)
  IN IF p = 0 THEN m # <<>> /\ AllIn(m, DecChars)
     ELSE /\ p > 1 /\ p < Len(m)
          /\ AllIn(SubSeq(m, 1, p - 1), DecChars)
          /\ AllIn(SubSeq(m, p + 1, Len(m)), DecChars)

\* the text between the leading \s+ and the trailing \s*g?$ of a tail
GramsOf(r) ==
  LET a == LStrip(r)
      b == IF a # <<>> /\ UpperChar(a[Len(a)]) = "G"
           THEN SubSeq(a, 1, Len(a) - 1) ELSE a
  IN RStrip(b)

\* r matches \s+(?P<grams>\d+(?:[.,]\d+)?)\s*g?$
TailMatches(r) == r # <<>> /\ IsSpace(Head(r)) /\ IsGrams(GramsOf(r))

\* the lengths of name with which FOOD_RE matches s
NameLens(s) == {i \in 1..Len(s) : TailMatches(SubSeq(s, i + 1, Len(s)))}

Min(S) == CHOOSE x \in S : \A y \in S : x <= y

\* parse_food_grams(text): matched = FALSE is None; .+? takes the shortest name
parse_food_grams(text) ==
  LET s == Strip(text)
  IN IF NameLens(s) = {}
     THEN [matched |-> FALSE, name |-> <<>>, grams |-> 0]
     ELSE LET i == Min(NameLens(s))
          IN [matched |-> TRUE,
              name |-> normalize_text(SubSeq(s, 1, i)),
              grams |-> UFloat(ReplaceComma(GramsOf(SubSeq(s, i + 1, Len(s))))).val]

(***************************************************************************)
(* The onboarding steps and their validators (handle_onboarding)           *)
(***************************************************************************)

OnbSteps ==
  {"ONB_SEX", "ONB_AGE", "ONB_HEIGHT", "ONB_WEIGHT", "ONB_ACTIVITY", "ONB_GOAL"}

\* step and step.startswith("ONB_")
IsOnbStep(step) == step \in OnbSteps

MinAge == 10
MaxAge == 90
MinHeight == 120
MaxHeight == 230
MinWeight == 35
MaxWeight == 250

\* The outcome of a step's check of t = normalize_text(text).upper():
\* "accept" with the field and the value to store, "reject", or "raise"
\* (an exception that leaves handle_onboarding).
Accept(f, v) == [kind |-> "accept", field |-> f, value |-> v]
Reject == [kind |-> "reject", field |-> "", value |-> 0]
Raises == [kind |-> "raise", field |-> "", value |-> 0]

ValidSex(t) == IF t \in {T_H, T_M} THEN Accept("sex", t) ELSE Reject

\* ValidAge without the upper limit
ValidAgeNoMax(t) ==
  IF ~IsDigit(t) THEN Reject
  ELSE IF ~IntParses(t) THEN Raises
  ELSE IF MinAge <= IntOf(t)
       THEN Accept("age", IntOf(t)) ELSE Reject

ValidAge(t) ==
  IF ~IsDigit(t) THEN Reject
  ELSE IF ~IntParses(t) THEN Raises
  ELSE IF MinAge <= IntOf(t) /\ IntOf(t) <= MaxAge
       THEN Accept("age", IntOf(t)) ELSE Reject

ValidHeight(t) ==
  LET h == ParseFloat(ReplaceComma(t))
  IN IF h.ok /\ MinHeight * 1000 <= h.val /\ h.val <= MaxHeight * 1000
     THEN Accept("height_cm", h.val) ELSE Reject

ValidWeight(t) ==
  LET w == ParseFloat(ReplaceComma(t))
  IN IF w.ok /\ MinWeight * 1000 <= w.val /\ w.val <= MaxWeight * 1000
     THEN Accept("weight_kg", w.val) ELSE Reject

ValidActivity(t) ==
  LET key == RemoveSpaces(t)
  IN IF key \in ACTIVITY_KEYS
     THEN Accept("activity_factor", ActivityFactor(key)) ELSE Reject

ValidGoal(t) == IF t \in GOALS THEN Accept("goal", t) ELSE Reject

Validate(step, t) ==
  CASE step = "ONB_SEX" -> ValidSex(t)
    [] step = "ONB_AGE" -> ValidAge(t)
    [] step = "ONB_HEIGHT" -> ValidHeight(t)
    [] step = "ONB_WEIGHT" -> ValidWeight(t)
    [] step = "ONB_ACTIVITY" -> ValidActivity(t)
    [] step = "ONB_GOAL" -> ValidGoal(t)

\* NextStep with a step left out
NextStepSkips(step) ==
  CASE step = "ONB_SEX" -> "ONB_AGE"
    [] step = "ONB_AGE" -> "ONB_WEIGHT"
    [] step = "ONB_HEIGHT" -> "ONB_WEIGHT"
    [] step = "ONB_WEIGHT" -> "ONB_ACTIVITY"
    [] step = "ONB_ACTIVITY" -> "ONB_GOAL"

\* the step set_state stores after the step's input was accepted
NextStep(step) ==
  CASE step = "ONB_SEX" -> "ONB_AGE"
    [] step = "ONB_AGE" -> "ONB_HEIGHT"
    [] step = "ONB_HEIGHT" -> "ONB_WEIGHT"
    [] step = "ONB_WEIGHT" -> "ONB_ACTIVITY"
    [] step = "ONB_ACTIVITY" -> "ONB_GOAL"

\* the corrective prompt of a step and the prompt sent after it was passed
BadPrompt(step) ==
  CASE step = "ONB_SEX" -> "bad_sex"
    [] step = "ONB_AGE" -> "bad_age"
    [] step = "ONB_HEIGHT" -> "bad_height"
    [] step = "ONB_WEIGHT" -> "bad_weight"
    [] step = "ONB_ACTIVITY" -> "bad_activity"
    [] step = "ONB_GOAL" -> "bad_goal"

AskPrompt(step) ==
  CASE step = "ONB_AGE" -> "ask_age"
    [] step = "ONB_HEIGHT" -> "ask_height"
    [] step = "ONB_WEIGHT" -> "ask_weight"
    [] step = "ONB_ACTIVITY" -> "ask_activity"
    [] step = "ONB_GOAL" -> "ask_goal"

\* data[k] = v on a dict
Put(data, k, v) == (k :> v) @@ data

EmptyData == [k \in {} |-> 0]

(***************************************************************************)
(* State                                                                   *)
(***************************************************************************)

\* the request handlers that may run at the same time (one webhook call each)
Handlers == {1, 2}

\* users.id of the one user whose session is modelled
user_id == 1

VARIABLES
  db,       \* the user_state row: [step, data]; step "NONE" is None (or no row)
  profile,  \* whether the user has a user_profile row
  pc,       \* per handler: where the webhook call stands
  txt,      \* per handler: text = normalize_text(msg["text"])
  loc,      \* per handler: st, the state last read by webhook or by the running
            \* handle_* function, with the changes made to its data
  meal,     \* per handler: current_meal of handle_log_food
  result,   \* per handler: "none" (running), "ok" (returned), "raised" (exception left webhook)
  rec,      \* whether the history below is recorded in this run
  sent,     \* history, per handler: the texts passed to tg_send during the call
  calls,    \* history, per handler: the RPCs issued during the call, with their outcome
  pre,      \* history, per handler: the user_state row when the call was received
  typed,    \* history: the texts whose values set_state stored in this dialogue pass
            \* (by onboarding step) and since it was completed (the meal, at "MEAL")
  fin       \* history of this dialogue pass (it starts anew with /start and with an
            \* activation): complete_onboarding calls that succeeded (ok) and runs of
            \* finalize_onboarding that raised (failed)

vars == <<db, profile, pc, txt, loc, meal, result, rec, sent, calls, pre, typed, fin>>

NoRow == [step |-> "NONE", data |-> EmptyData]

\* the counters of fin stop at MaxFin
MaxFin == 2

NoFin == [ok |-> 0, failed |-> 0]

Bump(n) == IF n < MaxFin THEN n + 1 ELSE n

InitWith(r) ==
  /\ db = NoRow
  /\ profile = FALSE
  /\ pc = [h \in Handlers |-> "idle"]
  /\ txt = [h \in Handlers |-> <<>>]
  /\ loc = [h \in Handlers |-> NoRow]
  /\ meal = [h \in Handlers |-> <<>>]
  /\ result = [h \in Handlers |-> "none"]
  /\ rec = r
  /\ sent = [h \in Handlers |-> <<>>]
  /\ calls = [h \in Handlers |-> <<>>]
  /\ pre = [h \in Handlers |-> NoRow]
  /\ typed = EmptyData
  /\ fin = NoFin

Init == InitWith(TRUE)

(***************************************************************************)
(* Building blocks.  Every branch of an action says where the call goes    *)
(* on (Goto, GotoWith, Return or Raise: pc, txt, loc, meal, result), what  *)
(* it sends (Say or Quiet: sent) and what it calls (Rpc or NoRpc: calls).  *)
(***************************************************************************)

\* the call goes on at l with its locals st (handle_*'s st) and m (the meal)
GotoWith(h, l, st, m) ==
  /\ pc' = [pc EXCEPT ![h] = l]
  /\ loc' = [loc EXCEPT ![h] = st]
  /\ meal' = [meal EXCEPT ![h] = m]
  /\ UNCHANGED <<txt, result>>

Goto(h, l) == GotoWith(h, l, loc[h], meal[h])

\* the call ends with outcome r; its locals are gone
End(h, r) ==
  /\ pc' = [pc EXCEPT ![h] = "done"]
  /\ result' = [result EXCEPT ![h] = r]
  /\ txt' = [txt EXCEPT ![h] = <<>>]
  /\ loc' = [loc EXCEPT ![h] = NoRow]
  /\ meal' = [meal EXCEPT ![h] = <<>>]

\* webhook returns JSONResponse({"ok": True})
Return(h) == End(h, "ok")

\* an exception leaves webhook (the framework answers 500)
Raise(h) == End(h, "raised")

\* tg_send(chat_id, m) is called
Say(h, m) == sent' = IF rec THEN [sent EXCEPT ![h] = Append(@, m)] ELSE sent

Quiet == UNCHANGED sent

\* sb.rpc(op, payload).execute() is called and succeeds (ok) or raises
Rpc(h, op, payload, ok) ==
  calls' = IF rec
           THEN [calls EXCEPT ![h] = Append(@, [op |-> op, payload |-> payload, ok |-> ok])]
           ELSE calls

NoRpc == UNCHANGED calls

\* get_state(user_id): the row as read
get_state == [step |-> db.step, data |-> db.data]

\* set_state(user_id, step, data): upsert of the row
set_state(step, data) == db' = [step |-> step, data |-> data]

NoWrite == UNCHANGED db

\* history of finalize_onboarding: the RPC succeeded, the function raised
FinOk == fin' = [fin EXCEPT !.ok = Bump(@)]
FinFailed == fin' = [fin EXCEPT !.failed = Bump(@)]

\* Route without the AYUDA and RESUMEN commands: their texts go on to the step
RouteNoCommands(text) ==
  IF StartsWith(text, T_start) THEN "start_get"
  ELSE "wh_get"

\* webhook's choice among the commands, before any state is read
Route(text) ==
  IF StartsWith(text, T_start) THEN "start_get"
  ELSE IF Upper(text) = T_AYUDA THEN "help_send"
  ELSE IF Upper(text) = T_RESUMEN THEN "sum_prof"
  ELSE "wh_get"

\* Dispatch taking a row without a step for one that waits for the code
DispatchNoStepAsCode(step) ==
  IF step \in {"WAIT_CODE", "NONE"} THEN "code_rpc"
  ELSE IF IsOnbStep(step) THEN "onb_get"
  ELSE "wh_prof"

\* webhook's choice on the step it read
Dispatch(step) ==
  IF step = "WAIT_CODE" THEN "code_rpc"
  ELSE IF IsOnbStep(step) THEN "onb_get"
  ELSE "wh_prof"

(***************************************************************************)
(* webhook: a message arrives                                              *)
(***************************************************************************)

Receive(h, raw) ==
  /\ pc[h] \in {"idle", "done"}
  /\ LET text == normalize_text(raw)
     IN /\ txt' = [txt EXCEPT ![h] = text]
        /\ pc' = [pc EXCEPT ![h] = Route(text)]
  /\ result' = [result EXCEPT ![h] = "none"]
  /\ sent' = [sent EXCEPT ![h] = <<>>]
  /\ calls' = [calls EXCEPT ![h] = <<>>]
  /\ pre' = IF rec THEN [pre EXCEPT ![h] = db] ELSE pre
  /\ UNCHANGED <<db, profile, loc, meal, rec, typed, fin>>

(***************************************************************************)
(* handle_start                                                            *)
(***************************************************************************)

StartGet(h) ==
  /\ pc[h] = "start_get"
  /\ \/ GotoWith(h, "start_send", get_state, meal[h])
     \/ Raise(h)
  /\ Quiet /\ NoRpc /\ NoWrite
  /\ UNCHANGED <<profile, rec, pre, typed, fin>>

StartSend(h) ==
  /\ pc[h] = "start_send"
  /\ Say(h, "hello")
  /\ (Goto(h, "start_set") \/ Raise(h))
  /\ NoRpc /\ NoWrite
  /\ UNCHANGED <<profile, rec, pre, typed, fin>>

\* set_state(user_id, "WAIT_CODE", st["data"] or {})
StartSet(h) ==
  /\ pc[h] = "start_set"
  /\ \/ /\ set_state("WAIT_CODE", loc[h].data)
        /\ typed' = EmptyData /\ fin' = NoFin
        /\ Return(h)
     \/ NoWrite /\ Raise(h) /\ UNCHANGED <<typed, fin>>
  /\ Quiet /\ NoRpc
  /\ UNCHANGED <<profile, rec, pre>>

(***************************************************************************)
(* AYUDA and handle_summary                                                *)
(***************************************************************************)

HelpSend(h) ==
  /\ pc[h] = "help_send"
  /\ Say(h, "help")
  /\ (Return(h) \/ Raise(h))
  /\ NoRpc /\ NoWrite
  /\ UNCHANGED <<profile, rec, pre, typed, fin>>

\* the user_profile query
SumProf(h) ==
  /\ pc[h] = "sum_prof"
  /\ \/ Goto(h, IF profile THEN "sum_send" ELSE "sum_none")
     \/ Raise(h)
  /\ Quiet /\ NoRpc /\ NoWrite
  /\ UNCHANGED <<profile, rec, pre, typed, fin>>

SumNone(h) ==
  /\ pc[h] = "sum_none"
  /\ Say(h, "no_macros")
  /\ (Return(h) \/ Raise(h))
  /\ NoRpc /\ NoWrite
  /\ UNCHANGED <<profile, rec, pre, typed, fin>>

\* the daily_log query (which may raise), then the summary is sent
SumSend(h) ==
  /\ pc[h] = "sum_send"
  /\ \/ Say(h, "summary") /\ (Return(h) \/ Raise(h))
     \/ Quiet /\ Raise(h)
  /\ NoRpc /\ NoWrite
  /\ UNCHANGED <<profile, rec, pre, typed, fin>>

(***************************************************************************)
(* webhook: the state is read and the message dispatched                   *)
(***************************************************************************)

WhGet(h) ==
  /\ pc[h] = "wh_get"
  /\ \/ GotoWith(h, Dispatch(get_state.step), get_state, meal[h])
     \/ Raise(h)
  /\ Quiet /\ NoRpc /\ NoWrite
  /\ UNCHANGED <<profile, rec, pre, typed, fin>>

(***************************************************************************)
(* handle_code                                                             *)
(***************************************************************************)

CodePayload(h) == [p_user_id |-> user_id, p_code |-> txt[h]]

CodeRpc(h) ==
  /\ pc[h] = "code_rpc"
  /\ \/ Rpc(h, "activate_with_code", CodePayload(h), TRUE) /\ Goto(h, "code_send")
     \/ Rpc(h, "activate_with_code", CodePayload(h), FALSE) /\ Goto(h, "code_bad")
  /\ Quiet /\ NoWrite
  /\ UNCHANGED <<profile, rec, pre, typed, fin>>

\* tg_send inside the try: an exception goes to the except branch
CodeSend(h) ==
  /\ pc[h] = "code_send"
  /\ Say(h, "code_ok")
  /\ (Goto(h, "code_set") \/ Goto(h, "code_bad"))
  /\ NoRpc /\ NoWrite
  /\ UNCHANGED <<profile, rec, pre, typed, fin>>

\* set_state(user_id, "ONB_SEX", {}) inside the try
CodeSet(h) ==
  /\ pc[h] = "code_set"
  /\ \/ /\ set_state("ONB_SEX", EmptyData)
        /\ typed' = EmptyData /\ fin' = NoFin
        /\ Return(h)
     \/ NoWrite /\ Goto(h, "code_bad") /\ UNCHANGED <<typed, fin>>
  /\ Quiet /\ NoRpc
  /\ UNCHANGED <<profile, rec, pre>>

\* the except branch
CodeBad(h) ==
  /\ pc[h] = "code_bad"
  /\ Say(h, "code_bad")
  /\ (Return(h) \/ Raise(h))
  /\ NoRpc /\ NoWrite
  /\ UNCHANGED <<profile, rec, pre, typed, fin>>

(***************************************************************************)
(* handle_onboarding and finalize_onboarding                               *)
(***************************************************************************)

\* t = normalize_text(text).upper()
OnbText(h) == Upper(normalize_text(txt[h]))

\* OnbBranch without the return after the corrective prompt: a rejected
\* text goes on to set_state like an accepted one
OnbBranchNoReturn(h, st) ==
  IF ~IsOnbStep(st.step) THEN Return(h)
  ELSE LET v == Validate(st.step, OnbText(h))
       IN CASE v.kind = "raise" -> Raise(h)
            [] v.kind = "reject" ->
                 GotoWith(h, IF st.step = "ONB_GOAL" THEN "fin_rpc" ELSE "onb_set",
                          st, meal[h])
            [] v.kind = "accept" ->
                 GotoWith(h, IF st.step = "ONB_GOAL" THEN "fin_rpc" ELSE "onb_set",
                          [step |-> st.step, data |-> Put(st.data, v.field, v.value)],
                          meal[h])

\* what handle_onboarding does once it has read st: it returns at once
\* (no branch for the step), leaves by an exception, rejects, or takes the
\* value into data and goes on to set_state or to finalize_onboarding
OnbBranch(h, st) ==
  IF ~IsOnbStep(st.step) THEN Return(h)
  ELSE LET v == Validate(st.step, OnbText(h))
       IN CASE v.kind = "raise" -> Raise(h)
            [] v.kind = "reject" -> GotoWith(h, "onb_bad", st, meal[h])
            [] v.kind = "accept" ->
                 GotoWith(h, IF st.step = "ONB_GOAL" THEN "fin_rpc" ELSE "onb_set",
                          [step |-> st.step, data |-> Put(st.data, v.field, v.value)],
                          meal[h])

OnbGet(h) ==
  /\ pc[h] = "onb_get"
  /\ \/ OnbBranch(h, get_state)
     \/ Raise(h)
  /\ Quiet /\ NoRpc /\ NoWrite
  /\ UNCHANGED <<profile, rec, pre, typed, fin>>

OnbBad(h) ==
  /\ pc[h] = "onb_bad"
  /\ Say(h, BadPrompt(loc[h].step))
  /\ (Return(h) \/ Raise(h))
  /\ NoRpc /\ NoWrite
  /\ UNCHANGED <<profile, rec, pre, typed, fin>>

OnbSet(h) ==
  /\ pc[h] = "onb_set"
  /\ \/ /\ set_state(NextStep(loc[h].step), loc[h].data)
        /\ typed' = IF rec THEN Put(typed, loc[h].step, txt[h]) ELSE typed
        /\ Goto(h, "onb_ask")
     \/ NoWrite /\ Raise(h) /\ UNCHANGED typed
  /\ Quiet /\ NoRpc
  /\ UNCHANGED <<profile, rec, pre, fin>>

OnbAsk(h) ==
  /\ pc[h] = "onb_ask"
  /\ Say(h, AskPrompt(NextStep(loc[h].step)))
  /\ (Return(h) \/ Raise(h))
  /\ NoRpc /\ NoWrite
  /\ UNCHANGED <<profile, rec, pre, typed, fin>>

ProfileFields == {"sex", "age", "height_cm", "weight_kg", "activity_factor", "goal"}

\* FinPayload with height and weight exchanged
FinPayloadSwapped(data) ==
  [p_user_id |-> user_id,
   p_sex |-> data["sex"],
   p_age |-> data["age"],
   p_height_cm |-> data["weight_kg"],
   p_weight_kg |-> data["height_cm"],
   p_activity_factor |-> data["activity_factor"],
   p_goal |-> data["goal"]]

\* the payload of complete_onboarding
FinPayload(data) ==
  [p_user_id |-> user_id,
   p_sex |-> data["sex"],
   p_age |-> data["age"],
   p_height_cm |-> data["height_cm"],
   p_weight_kg |-> data["weight_kg"],
   p_activity_factor |-> data["activity_factor"],
   p_goal |-> data["goal"]]

\* FinRpc with the goal stored before the RPC is issued
FinRpcStoresGoal(h) ==
  /\ pc[h] = "fin_rpc"
  /\ ProfileFields \subseteq DOMAIN loc[h].data
  /\ set_state("ONB_GOAL", loc[h].data)
  /\ \/ /\ Rpc(h, "complete_onboarding", FinPayload(loc[h].data), TRUE)
        /\ profile' = TRUE
        /\ FinOk
        /\ Goto(h, "fin_prof")
     \/ /\ Rpc(h, "complete_onboarding", FinPayload(loc[h].data), FALSE)
        /\ UNCHANGED profile
        /\ FinFailed
        /\ Raise(h)
  /\ Quiet
  /\ UNCHANGED <<rec, pre, typed>>

\* the payload is built (KeyError on a missing field) and the RPC issued;
\* a successful complete_onboarding leaves a user_profile row
FinRpc(h) ==
  /\ pc[h] = "fin_rpc"
  /\ \/ /\ ProfileFields \subseteq DOMAIN loc[h].data
        /\ Rpc(h, "complete_onboarding", FinPayload(loc[h].data), TRUE)
        /\ profile' = TRUE
        /\ FinOk
        /\ Goto(h, "fin_prof")
     \/ /\ ProfileFields \subseteq DOMAIN loc[h].data
        /\ Rpc(h, "complete_onboarding", FinPayload(loc[h].data), FALSE)
        /\ UNCHANGED profile
        /\ FinFailed
        /\ Raise(h)
     \/ /\ ~(ProfileFields \subseteq DOMAIN loc[h].data)
        /\ NoRpc
        /\ UNCHANGED profile
        /\ FinFailed
        /\ Raise(h)
  /\ Quiet /\ NoWrite
  /\ UNCHANGED <<rec, pre, typed>>

\* the user_profile row is read for the final message
FinProf(h) ==
  /\ pc[h] = "fin_prof"
  /\ \/ profile /\ Goto(h, "fin_send") /\ UNCHANGED fin
     \/ Raise(h) /\ FinFailed
  /\ Quiet /\ NoRpc /\ NoWrite
  /\ UNCHANGED <<profile, rec, pre, typed>>

FinSend(h) ==
  /\ pc[h] = "fin_send"
  /\ Say(h, "macros")
  /\ \/ Goto(h, "fin_set") /\ UNCHANGED fin
     \/ Raise(h) /\ FinFailed
  /\ NoRpc /\ NoWrite
  /\ UNCHANGED <<profile, rec, pre, typed>>

\* set_state(user_id, None, {"current_meal": "ALMUERZO"})
FinSet(h) ==
  /\ pc[h] = "fin_set"
  /\ \/ /\ set_state("NONE", Put(EmptyData, "current_meal", T_ALMUERZO))
        /\ typed' = EmptyData
        /\ fin' = [fin EXCEPT !.failed = 0]
        /\ Return(h)
     \/ NoWrite /\ Raise(h) /\ FinFailed /\ UNCHANGED typed
  /\ Quiet /\ NoRpc
  /\ UNCHANGED <<profile, rec, pre>>

(***************************************************************************)
(* webhook: has_profile, then handle_meal_select or handle_log_food        *)
(***************************************************************************)

\* WhProf without the has_profile test
WhProfNoTest(h) ==
  /\ pc[h] = "wh_prof"
  /\ \/ Goto(h, IF Upper(txt[h]) \in MEAL_TYPES THEN "meal_get" ELSE "log_get")
     \/ Raise(h)
  /\ Quiet /\ NoRpc /\ NoWrite
  /\ UNCHANGED <<profile, rec, pre, typed, fin>>

WhProf(h) ==
  /\ pc[h] = "wh_prof"
  /\ \/ Goto(h, IF ~profile THEN "no_prof"
                ELSE IF Upper(txt[h]) \in MEAL_TYPES THEN "meal_get"
                ELSE "log_get")
     \/ Raise(h)
  /\ Quiet /\ NoRpc /\ NoWrite
  /\ UNCHANGED <<profile, rec, pre, typed, fin>>

NoProf(h) ==
  /\ pc[h] = "no_prof"
  /\ Say(h, "need_start")
  /\ (Return(h) \/ Raise(h))
  /\ NoRpc /\ NoWrite
  /\ UNCHANGED <<profile, rec, pre, typed, fin>>

\* st = get_state(user_id); data["current_meal"] = meal
MealGet(h) ==
  /\ pc[h] = "meal_get"
  /\ \/ GotoWith(h, "meal_set",
                 [step |-> get_state.step,
                  data |-> Put(get_state.data, "current_meal", Upper(txt[h]))],
                 Upper(txt[h]))
     \/ Raise(h)
  /\ Quiet /\ NoRpc /\ NoWrite
  /\ UNCHANGED <<profile, rec, pre, typed, fin>>

MealSet(h) ==
  /\ pc[h] = "meal_set"
  /\ \/ /\ set_state("NONE", loc[h].data)
        /\ typed' = IF rec THEN Put(typed, "MEAL", txt[h]) ELSE typed
        /\ Goto(h, "meal_send")
     \/ NoWrite /\ Raise(h) /\ UNCHANGED typed
  /\ Quiet /\ NoRpc
  /\ UNCHANGED <<profile, rec, pre, fin>>

MealSend(h) ==
  /\ pc[h] = "meal_send"
  /\ Say(h, "meal_ok")
  /\ (Return(h) \/ Raise(h))
  /\ NoRpc /\ NoWrite
  /\ UNCHANGED <<profile, rec, pre, typed, fin>>

\* CurrentMeal that ignores the stored meal
CurrentMealDefault(data) == T_ALMUERZO

\* data.get("current_meal") or "ALMUERZO"
CurrentMeal(data) ==
  IF "current_meal" \in DOMAIN data /\ data["current_meal"] # <<>>
  THEN data["current_meal"] ELSE T_ALMUERZO

\* LogGet without the return on a text that did not parse
LogGetNoReturn(h) ==
  /\ pc[h] = "log_get"
  /\ \/ GotoWith(h, "log_rpc", get_state, CurrentMeal(get_state.data))
     \/ Raise(h)
  /\ Quiet /\ NoRpc /\ NoWrite
  /\ UNCHANGED <<profile, rec, pre, typed, fin>>

\* get_state, then parse_food_grams(text); a returned tuple is always truthy
LogGet(h) ==
  /\ pc[h] = "log_get"
  /\ \/ GotoWith(h, IF parse_food_grams(txt[h]).matched THEN "log_rpc" ELSE "log_no",
                 get_state, CurrentMeal(get_state.data))
     \/ Raise(h)
  /\ Quiet /\ NoRpc /\ NoWrite
  /\ UNCHANGED <<profile, rec, pre, typed, fin>>

LogNo(h) ==
  /\ pc[h] = "log_no"
  /\ Say(h, "not_understood")
  /\ (Return(h) \/ Raise(h))
  /\ NoRpc /\ NoWrite
  /\ UNCHANGED <<profile, rec, pre, typed, fin>>

LogPayload(h) ==
  [p_user_id |-> user_id,
   p_meal_type |-> meal[h],
   p_food_name |-> parse_food_grams(txt[h]).name,
   p_grams |-> parse_food_grams(txt[h]).grams]

LogRpc(h) ==
  /\ pc[h] = "log_rpc"
  /\ \/ Rpc(h, "log_food", LogPayload(h), TRUE) /\ Goto(h, "log_ok")
     \/ Rpc(h, "log_food", LogPayload(h), FALSE) /\ Goto(h, "log_bad")
  /\ Quiet /\ NoWrite
  /\ UNCHANGED <<profile, rec, pre, typed, fin>>

\* tg_send inside the try: an exception goes to the except branch
LogOk(h) ==
  /\ pc[h] = "log_ok"
  /\ Say(h, "logged")
  /\ (Return(h) \/ Goto(h, "log_bad"))
  /\ NoRpc /\ NoWrite
  /\ UNCHANGED <<profile, rec, pre, typed, fin>>

LogBad(h) ==
  /\ pc[h] = "log_bad"
  /\ Say(h, "not_found")
  /\ (Return(h) \/ Raise(h))
  /\ NoRpc /\ NoWrite
  /\ UNCHANGED <<profile, rec, pre, typed, fin>>

(***************************************************************************)
(* Specifications                                                          *)
(***************************************************************************)

Step(h) ==
  \/ StartGet(h) \/ StartSend(h) \/ StartSet(h)
  \/ HelpSend(h) \/ SumProf(h) \/ SumNone(h) \/ SumSend(h)
  \/ WhGet(h)
  \/ CodeRpc(h) \/ CodeSend(h) \/ CodeSet(h) \/ CodeBad(h)
  \/ OnbGet(h) \/ OnbBad(h) \/ OnbSet(h) \/ OnbAsk(h)
  \/ FinRpc(h) \/ FinProf(h) \/ FinSend(h) \/ FinSet(h)
  \/ WhProf(h) \/ NoProf(h)
  \/ MealGet(h) \/ MealSet(h) \/ MealSend(h)
  \/ LogGet(h) \/ LogNo(h) \/ LogRpc(h) \/ LogOk(h) \/ LogBad(h)

\* one message of the user is handled at a time
Next == (\E raw \in Inputs : Receive(1, raw)) \/ Step(1)

Spec == Init /\ [][Next]_vars

\* the texts typed while two messages of the user are handled at once
ConcInputs == {I_start, I_code, I_h, I_90, I_120, I_act, I_goal}

\* the texts of the second of them
ConcInputs2 == {I_start, I_h, I_goal}

\* the concurrent runs follow the user until the first dialogue pass is complete
PassOpen == ~(db.step = "NONE" /\ profile)

\* the steps the texts above lead to
StepConc(h) ==
  \/ StartGet(h) \/ StartSend(h) \/ StartSet(h)
  \/ WhGet(h)
  \/ CodeRpc(h) \/ CodeSend(h) \/ CodeSet(h) \/ CodeBad(h)
  \/ OnbGet(h) \/ OnbBad(h) \/ OnbSet(h) \/ OnbAsk(h)
  \/ FinRpc(h) \/ FinProf(h) \/ FinSend(h) \/ FinSet(h)
  \/ WhProf(h) \/ NoProf(h)
  \/ LogGet(h) \/ LogNo(h)

\* two messages of the user are handled by concurrent webhook calls
NextConc ==
  \/ PassOpen /\ \E raw \in ConcInputs : Receive(1, raw)
  \/ PassOpen /\ \E raw \in ConcInputs2 : Receive(2, raw)
  \/ \E h \in Handlers : StepConc(h)

SpecConc == InitWith(FALSE) /\ [][NextConc]_vars

(***************************************************************************)
(* Properties                                                              *)
(***************************************************************************)

\* the RPCs of handler 1's call are exactly one call of op
OneCall(op) == Len(calls[1]) = 1 /\ calls[1][1].op = op

\* C1: in every onboarding step, a text the step's validator rejects goes to
\* the corrective prompt (unless the state could not be read at all); from
\* there the row stays as it was when the message arrived, no RPC is issued,
\* and the call ends with the step's corrective prompt passed to tg_send.
C1_Rejecting ==
  /\ pc[1] = "onb_get"
  /\ IsOnbStep(db.step)
  /\ Validate(db.step, OnbText(1)).kind = "reject"

C2_StartResets ==
  (pc[1] = "done" /\ result[1] = "ok" /\ sent[1] = <<"hello">>)
    => (db.step = "WAIT_CODE" /\ DOMAIN db.data = {})

\* C3: every write that changes the row is applied to the row its handler
\* loaded: the step in the row is still the step the handler read.
C3_WritesSeeLoadedSession ==
  [][\A h \in Handlers :
       (pc'[h] # pc[h] /\ db' # db) => db.step = loc[h].step]_vars

\* C4: a call in which complete_onboarding succeeded issued that one RPC
\* only, and ends with the row in the steady state (step None) and without
\* any of the six onboarding fields.
C4_FinalizeCompletes ==
  (pc[1] = "done" /\ calls[1] # <<>> /\ calls[1][1].op = "complete_onboarding"
     /\ calls[1][1].ok)
    => /\ OneCall("complete_onboarding")
       /\ db.step = "NONE"
       /\ DOMAIN db.data \cap ProfileFields = {}

\* C5: while finalize_onboarding runs, and after it has raised (the RPC
\* failed, or a step after it), the row is the row of the time the message
\* arrived: step ONB_GOAL, the five earlier fields, no goal.  A run of
\* finalize_onboarding whose last step succeeds, also one that follows failed
\* runs, leaves the steady state.
C5_InFinalize == pc[1] \in {"fin_rpc", "fin_prof", "fin_send", "fin_set"}

C5_FinalizeRaised ==
  /\ pc[1] = "done" /\ result[1] = "raised"
  /\ calls[1] # <<>> /\ calls[1][1].op = "complete_onboarding"

C5_SessionKept ==
  /\ db = pre[1]
  /\ db.step = "ONB_GOAL"
  /\ DOMAIN db.data = ProfileFields \ {"goal"}

C5_FailedFinalizeKeepsSession ==
  /\ []((C5_InFinalize \/ C5_FinalizeRaised) => C5_SessionKept)
  /\ [][(pc[1] = "fin_set" /\ result'[1] = "ok")
          => /\ db'.step = "NONE"
             /\ DOMAIN db'.data \cap ProfileFields = {}]_vars

\* after a failed run the same goal was sent again, and this time the RPC, the
\* profile read and the send went through
C5_Witness ==
  /\ pc[1] = "fin_set" /\ fin.failed > 0
  /\ db.step = "ONB_GOAL" /\ db = pre[1]

\* C6: a call that issued activate_with_code ends with step ONB_SEX and an
\* empty data exactly if the RPC succeeded; if it failed the row is unchanged
\* and the rejection was sent.
C6_ActivationIffSuccess ==
  (pc[1] = "done" /\ calls[1] # <<>> /\ calls[1][1].op = "activate_with_code")
    => /\ (db = [step |-> "ONB_SEX", data |-> EmptyData]) <=> calls[1][1].ok
       /\ ~calls[1][1].ok => (db = pre[1] /\ sent[1] = <<"code_bad">>)

\* C7: the payload of complete_onboarding holds, besides the user, the six
\* values the user typed in this pass: the value of each text is taken from
\* the table below, written by hand from the texts.
AgeTyped(t) ==
  CASE t = <<"1", "0">> -> 10
    [] t = <<"9", "0">> -> 90

\* heights and weights, in thousandths
MilliTyped(t) ==
  CASE t = <<"9", "0">> -> 90000
    [] t = <<"9", "1">> -> 91000
    [] t = <<"1", "2", "0">> -> 120000
    [] t = <<"3", "5", ".", "0">> -> 35000
    [] t = <<"2", "3", "0", ",", "5">> -> 230500
    [] t = <<"2", "5", "0">> -> 250000

FactorTyped(t) ==
  CASE t = <<"1", ".", "5", "5">> -> 1550
    [] t = <<"1", ".", " ", "9">> -> 1900

WordTyped(t) ==
  CASE t = <<"h">> -> T_H
    [] t = <<"M">> -> T_M
    [] t = <<"d", "e", "f", "i", "c", "i", "t">> -> T_DEFICIT
    [] t = <<"V", "O", "L", "U", "M", "E", "N">> -> T_VOLUMEN

C7_Expected(goalText) ==
  [p_user_id |-> user_id,
   p_sex |-> WordTyped(typed["ONB_SEX"]),
   p_age |-> AgeTyped(typed["ONB_AGE"]),
   p_height_cm |-> MilliTyped(typed["ONB_HEIGHT"]),
   p_weight_kg |-> MilliTyped(typed["ONB_WEIGHT"]),
   p_activity_factor |-> FactorTyped(typed["ONB_ACTIVITY"]),
   p_goal |-> WordTyped(goalText)]

C7_PayloadIsWhatWasTyped ==
  [][(pc[1] = "fin_rpc" /\ calls'[1] # <<>>)
       => /\ Len(calls'[1]) = 1
          /\ calls'[1][1].op = "complete_onboarding"
          /\ calls'[1][1].payload = C7_Expected(txt[1])]_vars

C7_Witness ==
  /\ pc[1] = "fin_prof" /\ OneCall("complete_onboarding")
  /\ calls[1][1].payload.p_sex = T_H
  /\ calls[1][1].payload.p_age = 90
  /\ calls[1][1].payload.p_height_cm = 120000
  /\ calls[1][1].payload.p_weight_kg = 35000
  /\ calls[1][1].payload.p_activity_factor = 1900
  /\ calls[1][1].payload.p_goal = T_DEFICIT

\* C8: the data of the row holds exactly the fields of the steps before the
\* row's step: none in WAIT_CODE and ONB_SEX, sex in ONB_AGE, and so on; in
\* the steady state it holds none of the onboarding fields.
AccOf(step) ==
  CASE step = "WAIT_CODE" -> {}
    [] step = "ONB_SEX" -> {}
    [] step = "ONB_AGE" -> {"sex"}
    [] step = "ONB_HEIGHT" -> {"sex", "age"}
    [] step = "ONB_WEIGHT" -> {"sex", "age", "height_cm"}
    [] step = "ONB_ACTIVITY" -> {"sex", "age", "height_cm", "weight_kg"}
    [] step = "ONB_GOAL" -> ProfileFields \ {"goal"}

C8_AccumulatorMatchesStep ==
  IF db.step = "NONE" THEN DOMAIN db.data \cap ProfileFields = {}
  ELSE DOMAIN db.data = AccOf(db.step)

\* C9: the step of the row changes only to its one successor along
\* WAIT_CODE, ONB_SEX, ..., ONB_GOAL, steady state, or to WAIT_CODE by
\* handle_start; every accepted onboarding input that is stored moves the step
\* to that successor.
SuccStep(step) ==
  CASE step = "WAIT_CODE" -> "ONB_SEX"
    [] step = "ONB_SEX" -> "ONB_AGE"
    [] step = "ONB_AGE" -> "ONB_HEIGHT"
    [] step = "ONB_HEIGHT" -> "ONB_WEIGHT"
    [] step = "ONB_WEIGHT" -> "ONB_ACTIVITY"
    [] step = "ONB_ACTIVITY" -> "ONB_GOAL"
    [] step = "ONB_GOAL" -> "NONE"
    [] step = "NONE" -> "NONE"

C9_StepMovesToSuccessor ==
  [][/\ db'.step # db.step =>
          \/ db'.step = SuccStep(db.step)
          \/ db'.step = "WAIT_CODE" /\ pc[1] = "start_set"
     /\ (pc[1] = "onb_set" /\ pc'[1] = "onb_ask") =>
          (db'.step # db.step /\ db'.step = SuccStep(db.step))]_vars

C9_Witness ==
  /\ pc[1] = "done" /\ result[1] = "ok" /\ sent[1] = <<"macros">>
  /\ db.step = "NONE" /\ profile

\* C10: in ONB_WEIGHT a text is rejected exactly if it is no decimal number
\* in [30, 250], and accepted exactly if it is one.
C10_InRange ==
  LET w == ParseFloat(ReplaceComma(OnbText(1)))
  IN w.ok /\ 30 * 1000 <= w.val /\ w.val <= 250 * 1000

C10_WeightRange ==
  /\ (pc[1] = "onb_bad" /\ loc[1].step = "ONB_WEIGHT") => ~C10_InRange
  /\ (pc[1] = "onb_set" /\ loc[1].step = "ONB_WEIGHT") => C10_InRange

\* C11: in ONB_AGE a whole number is accepted exactly if it lies in
\* [10, 90]: 9 and 91 go to the corrective prompt with the row unchanged, 10
\* and 90 are stored as age and the step becomes ONB_HEIGHT.  The value of a
\* text is taken from the table below, written by hand from the texts (-1: the
\* text is no whole number).
C11_Age(t) ==
  CASE t = <<"9">> -> 9
    [] t = <<"1", "0">> -> 10
    [] t = <<"9", "0">> -> 90
    [] t = <<"9", "1">> -> 91
    [] t = <<"1", "2", "0">> -> 120
    [] t = <<"2", "5", "0">> -> 250
    [] t = <<"2", "5", "1">> -> 251
    [] OTHER -> -1

C11_InRange == 10 <= C11_Age(txt[1]) /\ C11_Age(txt[1]) <= 90

C11_AtAge(l) == pc[1] = l /\ loc[1].step = "ONB_AGE"

C11_AgeRange ==
  /\ (pc[1] = "onb_get" /\ db.step = "ONB_AGE" /\ C11_Age(txt[1]) >= 0)
       => Validate("ONB_AGE", OnbText(1)).kind
            = IF C11_InRange THEN "accept" ELSE "reject"
  /\ C11_AtAge("onb_bad") => (~C11_InRange /\ db = pre[1] /\ db.step = "ONB_AGE")
  /\ C11_AtAge("onb_set") => (C11_InRange /\ db = pre[1])
  /\ C11_AtAge("onb_ask")
       => /\ C11_InRange
          /\ db.step = "ONB_HEIGHT"
          /\ db.data = Put(pre[1].data, "age", C11_Age(txt[1]))

C11_Witness ==
  /\ C11_AtAge("onb_ask") /\ txt[1] = I_90
  /\ db.step = "ONB_HEIGHT" /\ db.data["age"] = 90

\* C12: a text that is AYUDA or RESUMEN (in any case) is handled by the help
\* branch or by handle_summary whatever the step of the row, never by the
\* code of a step; while it is handled and when its call has ended, the row
\* is the row of the time the message arrived and no RPC was issued.
C12_Command == Upper(txt[1]) \in {T_AYUDA, T_RESUMEN}

C12_InCommand == pc[1] \in {"help_send", "sum_prof", "sum_none", "sum_send"}

C12_CommandEnded ==
  /\ pc[1] = "done" /\ sent[1] # <<>>
  /\ sent[1][1] \in {"help", "no_macros", "summary"}

C12_HelpAndSummaryKeepSession ==
  /\ (pc[1] \notin {"idle", "done"}) => (C12_Command <=> C12_InCommand)
  /\ (C12_InCommand \/ C12_CommandEnded)
       => (db = pre[1] /\ calls[1] = <<>> /\ Len(sent[1]) <= 1)

C12_Witness ==
  /\ C12_CommandEnded /\ sent[1] = <<"help">>
  /\ db.step = "ONB_GOAL" /\ db = pre[1]
  /\ DOMAIN db.data = ProfileFields \ {"goal"}

\* C13: a message that arrives in the steady state (no step in the row, a
\* profile) leaves the row without a step, whether it selects a meal, logs a
\* food, fails or succeeds; only a call of handle_start that ran to its end
\* leaves the row with a step, and that step is WAIT_CODE.
C13_FromSteady == pc[1] # "idle" /\ pre[1].step = "NONE" /\ profile

C13_StartHandled ==
  /\ pc[1] = "done" /\ result[1] = "ok" /\ sent[1] = <<"hello">>
  /\ db.step = "WAIT_CODE"

C13_SteadyStepStays ==
  (C13_FromSteady /\ db.step # "NONE") => C13_StartHandled

C13_Witness ==
  /\ C13_FromSteady /\ pc[1] = "done" /\ db.step = "NONE"
  /\ calls[1] # <<>> /\ calls[1][1].op = "log_food" /\ ~calls[1][1].ok
  /\ "current_meal" \in DOMAIN db.data /\ db.data["current_meal"] = T_CENA

\* C14: every log_food call carries the meal of the last meal token that was
\* stored since onboarding was completed, or ALMUERZO when there was none;
\* the meal of a token is taken from the table below, written by hand from
\* the texts.
C14_MealTyped(t) ==
  CASE t = <<"c", "e", "n", "a">> -> T_CENA
    [] t = <<"S", "n", "a", "c", "k">> -> T_SNACK

C14_Selected ==
  IF "MEAL" \in DOMAIN typed THEN C14_MealTyped(typed["MEAL"]) ELSE T_ALMUERZO

C14_LogCarriesSelectedMeal ==
  (calls[1] # <<>> /\ calls[1][1].op = "log_food")
    => /\ Len(calls[1]) = 1
       /\ calls[1][1].payload.p_meal_type = C14_Selected
       /\ db.step = "NONE" /\ db.data["current_meal"] = C14_Selected

C14_Witness ==
  /\ pc[1] = "log_ok" /\ OneCall("log_food")
  /\ calls[1][1].payload.p_meal_type = T_SNACK
  /\ typed["MEAL"] = I_snack

\* C15: while handle_log_food runs and when its call has ended, the row is
\* the row of the time the message arrived, whether the text did not parse,
\* the log_food call failed or it succeeded; a text that does not parse goes
\* to the "not understood" answer without any RPC.  The texts that parse are
\* listed by hand.
C15_Parses(t) ==
  t \in {<<"p", "o", "l", "l", "o", " ", "c", "o", "c", "i", "d", "o", " ", "1", "8", "0", "g">>,
         <<"a", "r", "r", "o", "z", " ", "0">>,
         <<"1", ".", " ", "9">>}

C15_InLog == pc[1] \in {"log_get", "log_no", "log_rpc", "log_ok", "log_bad"}

C15_LogEnded ==
  /\ pc[1] = "done" /\ sent[1] # <<>>
  /\ sent[1][1] \in {"not_understood", "logged", "not_found"}

C15_LogKeepsSession ==
  /\ (C15_InLog \/ C15_LogEnded) => db = pre[1]
  /\ pc[1] = "log_no" => (~C15_Parses(txt[1]) /\ calls[1] = <<>>)
  /\ pc[1] \in {"log_rpc", "log_ok", "log_bad"} => C15_Parses(txt[1])
  /\ (C15_LogEnded /\ sent[1][1] = "not_understood") => calls[1] = <<>>

C15_Witness ==
  /\ C15_LogEnded /\ sent[1] = <<"not_found">>
  /\ OneCall("log_food") /\ ~calls[1][1].ok
  /\ db = pre[1] /\ db.data["current_meal"] = T_SNACK

\* C16: a food line leads to a log_food call exactly if it has a name and a
\* numeric tail with a quantity above 0, and the call then carries that
\* quantity; every other line, one with the quantity 0 included, is answered
\* "not understood" with no call.  The quantity of a line (in thousandths; -1
\* for a line without a name or without a numeric tail) is taken from the
\* table below, written by hand from the texts.
C16_Quantity(t) ==
  CASE t = <<"p", "o", "l", "l", "o", " ", "c", "o", "c", "i", "d", "o", " ", "1", "8", "0", "g">>
         -> 180000
    [] t = <<"a", "r", "r", "o", "z", " ", "0">> -> 0
    [] t = <<"1", ".", " ", "9">> -> 9000
    [] OTHER -> -1

C16_ParserRejectsNonPositive ==
  /\ pc[1] = "log_no" => C16_Quantity(txt[1]) <= 0
  /\ pc[1] = "log_rpc"
       => /\ C16_Quantity(txt[1]) > 0
          /\ LogPayload(1).p_grams = C16_Quantity(txt[1])

\* C17: every call of webhook ends with at least one text passed to tg_send,
\* and it ends by an exception only when the failing step is a tg_send
\* itself: a rejected input, a failed RPC and a failed read or write of
\* user_state all end with an answer to the user and a normal return.
C17_FailuresAnswered ==
  [][(pc[1] # "done" /\ pc'[1] = "done")
       => /\ sent'[1] # <<>>
          /\ result'[1] = "raised" => sent'[1] # sent[1]]_vars

\* C18: a tg_send that fails changes nothing in what is written: after a
\* tg_send that precedes a set_state (in handle_start, handle_code and
\* finalize_onboarding) the call goes on to that set_state whether the send
\* went through or raised, and every other tg_send leaves the row alone.
C18_SendNeverBlocksWrite ==
  [][/\ pc[1] = "start_send" => pc'[1] = "start_set"
     /\ pc[1] = "code_send" => pc'[1] = "code_set"
     /\ pc[1] = "fin_send" => pc'[1] = "fin_set"
     /\ pc[1] \in {"help_send", "sum_none", "sum_send", "code_bad", "onb_bad",
                   "onb_ask", "no_prof", "meal_send", "log_no", "log_ok", "log_bad"}
          => db' = db]_vars

\* C19: handle_meal_select and handle_log_food run, and log_food is called,
\* only while the user has a profile and the row has no step; a message of a
\* user without a profile and without a step calls no RPC, is answered by
\* nothing but the request to send /start (or by the answer of a command), and
\* changes the row only if it is /start.
C19_InSteadyHandler ==
  \/ pc[1] \in {"meal_get", "meal_set", "meal_send",
                "log_get", "log_no", "log_rpc", "log_ok", "log_bad"}
  \/ calls[1] # <<>> /\ calls[1][1].op = "log_food"

C19_NewUser == pc[1] # "idle" /\ pre[1].step = "NONE" /\ ~profile

C19_SteadyHandlersNeedProfile ==
  /\ C19_InSteadyHandler => (profile /\ db.step = "NONE")
  /\ C19_NewUser
       => /\ calls[1] = <<>>
          /\ sent[1] \in {<<>>, <<"need_start">>, <<"hello">>, <<"help">>, <<"no_macros">>}
          /\ db # pre[1] => sent[1] = <<"hello">>

C19_Witness ==
  /\ C19_NewUser /\ pc[1] = "done" /\ result[1] = "ok"
  /\ sent[1] = <<"need_start">> /\ db = pre[1]

\* C20: in one dialogue pass (from an activation, or a /start, to the steady
\* state) complete_onboarding succeeds at most once.
C20_FinalizeAtMostOnce == fin.ok <= 1

====
